---------------------------- MODULE Spec2Model ----------------------------
(***************************************************************************)
(* Emergency alert dispatch of src/src/services/emailService.ts:          *)
(* sendEmergencyAlert, sendMIMENotification and sendEmail.                 *)
(*                                                                         *)
(* Strings whose characters matter (addresses, the triggering message)    *)
(* are sequences of one-character strings, so that trim() is computed and  *)
(* not assumed.  An async function runs to its next await in one step; a   *)
(* promise settling (fetch, response.json(), the mail timer) is a step of  *)
(* the environment that resumes the suspended call.                        *)
(***************************************************************************)
EXTENDS Integers, Sequences, FiniteSets, TLC

(***************************************************************************)
(* Bounds of the model.                                                    *)
(***************************************************************************)
\* longest contact list of a user
MaxContacts == 2
\* most calls of sendEmergencyAlert that reach a channel in one run
MaxAlerts == 6
\* longest relationships array passed to the contact filter when it is
\* exercised on its own
MaxRoles == 2
\* how far below 0 and above 100 the classified scores range
ScoreMargin == 3

\* longest triggering message when the message body is built on its own
MaxMessage == 3

\* README: "Rate limiting prevents more than 5 alerts per hour per user"
MAX_ALERTS_PER_HOUR == 5

(***************************************************************************)
(* Values.                                                                 *)
(***************************************************************************)
\* Contact['relationship']
Relationships == {"counselor", "parent", "friend"}

\* relationships parameter default of sendEmergencyAlert
DefaultRelationships == <<"counselor", "parent">>

\* the concurrent invocations of sendEmergencyAlert that may be in flight
Procs == {"p1", "p2"}

SeqsUpTo(S, n) == UNION {[1..k -> S] : k \in 0..n}

\* A contact: email is optional (hasEmail = FALSE is `undefined`).
Contact(rel, has, chars) == [relationship |-> rel, hasEmail |-> has, email |-> chars]

\* addresses used when the filter is exercised on its own: undefined, "",
\* " ", "a", " a"
EmailPool ==
    { [hasEmail |-> FALSE, email |-> <<>>],
      [hasEmail |-> TRUE, email |-> <<>>],
      [hasEmail |-> TRUE, email |-> <<" ">>],
      [hasEmail |-> TRUE, email |-> <<"a">>],
      [hasEmail |-> TRUE, email |-> <<" ", "a">>] }

ContactPool == {Contact(r, e.hasEmail, e.email) : r \in Relationships, e \in EmailPool}

\* contacts of the users that issue alerts
AlertContactPool ==
    { Contact("counselor", TRUE, <<"c", "@", "x">>),
      Contact("friend", TRUE, <<"f", "@", "x">>),
      Contact("parent", TRUE, <<" ">>),
      Contact("counselor", FALSE, <<>>) }

\* relationships arguments passed explicitly (the default is passed by omission)
RelationshipChoices == { <<"friend">>, <<"counselor", "parent", "friend">> }

AlertScores == {75, 95}

AlertMessages == { <<"h", "i">> }

\* characters of the triggering messages when the body is built on its own
MessageChars == {"h", "<", ">", "&", "\""}

ScoreRange == (0 - ScoreMargin)..(100 + ScoreMargin)

(***************************************************************************)
(* String.prototype.trim, Array.prototype.includes                         *)
(***************************************************************************)
IsWhitespace(ch) == ch \in {" ", "\t", "\n"}

RECURSIVE TrimStart(_)
TrimStart(s) == IF s # <<>> /\ IsWhitespace(Head(s)) THEN TrimStart(Tail(s)) ELSE s

RECURSIVE TrimEnd(_)
TrimEnd(s) ==
    IF s # <<>> /\ IsWhitespace(s[Len(s)]) THEN TrimEnd(SubSeq(s, 1, Len(s) - 1)) ELSE s

Trim(s) == TrimEnd(TrimStart(s))

Includes(arr, x) == \E i \in DOMAIN arr : arr[i] = x

\* truthiness of contact.email: undefined and "" are falsy
Truthy(contact) == contact.hasEmail /\ contact.email # <<>>

(***************************************************************************)
(* The two contact filters.                                                *)
(***************************************************************************)
ContactsToAlert_NoTrim(contacts, relationships) ==
    LET keep(contact) == Includes(relationships, contact.relationship) /\ Truthy(contact)
    IN  SelectSeq(contacts, keep)

\* sendEmergencyAlert: user.contacts.filter(...)
ContactsToAlert(contacts, relationships) ==
    LET keep(contact) ==
            /\ Includes(relationships, contact.relationship)
            /\ Truthy(contact)
            /\ Trim(contact.email) # <<>>
    IN  SelectSeq(contacts, keep)

ValidContacts_NoTrim(contacts) == SelectSeq(contacts, Truthy)

\* sendMIMENotification: user.contacts.filter(...)
ValidContacts(contacts) ==
    LET keep(contact) == Truthy(contact) /\ Trim(contact.email) # <<>>
    IN  SelectSeq(contacts, keep)

\* sendEmergencyAlert: relationships.filter(rel => !user.contacts.some(...))
MissingContacts(contacts, relationships) ==
    LET missing(rel) ==
            ~\E i \in DOMAIN contacts : contacts[i].relationship = rel /\ Truthy(contacts[i])
    IN  SelectSeq(relationships, missing)

(***************************************************************************)
(* Severity label of the plain message.                                    *)
(***************************************************************************)
Severity_Exclusive(emotionScore) ==
    IF emotionScore > 90 THEN "CRITICAL" ELSE IF emotionScore > 80 THEN "HIGH" ELSE "ELEVATED"

Severity(emotionScore) ==
    IF emotionScore >= 90 THEN "CRITICAL" ELSE IF emotionScore >= 80 THEN "HIGH" ELSE "ELEVATED"


(***************************************************************************)
(* State.                                                                  *)
(***************************************************************************)
VARIABLES
    user,        \* the User passed to every call: [id, name, contacts]
    call,        \* per invocation of sendEmergencyAlert: its locals and position
    alertsSent,  \* calls that have invoked a channel (fetch or sendEmail) so far;
                 \* the run spans less than one hour
    probe        \* a filter or a classification exercised on its own

vars == <<user, call, alertsSent, probe>>

UserOf(contacts) == [id |-> "u1", name |-> "Sam", contacts |-> contacts]

\* what a function call ends with: a returned value or a raised error
Returns(v) == [kind |-> "return", value |-> v]
Throws == [kind |-> "throw", value |-> FALSE]

IdleCall ==
    [ pc |-> "idle",
      relationships |-> <<>>, useMIME |-> FALSE, emotionScore |-> 0, message |-> <<>>,
      contactsToAlert |-> <<>>,
      fetchBody |-> <<>>, fetchOutcome |-> "none", jsonOutcome |-> "none",
      mimeEnd |-> <<>>,
      severity |-> "", emailOptions |-> <<>>, timerOutcome |-> "none",
      emailEnd |-> <<>>,
      result |-> <<>>, threw |-> FALSE,
      fetchCalls |-> 0, sendEmailCalls |-> 0 ]

NoProbe ==
    [ op |-> "none", applied |-> 0, relationships |-> <<>>, contactsToAlert |-> <<>>,
      emotionScore |-> 0, severity |-> "", prevScore |-> 0, prevSeverity |-> "",
      window |-> FALSE, missingContacts |-> <<>>, message |-> <<>>, body |-> <<>> ]

(***************************************************************************)
(* sendEmergencyAlert, from its entry to each of its awaits.               *)
(***************************************************************************)
\* `return v` of sendEmergencyAlert
Return(rec, v) == [rec EXCEPT !.pc = "done", !.result = <<v>>]

\* an error leaving sendEmergencyAlert
Raise(rec) == [rec EXCEPT !.pc = "done", !.threw = TRUE]

\* the JSON body sendMIMENotification posts
FetchBody(u, rec) ==
    [ user |-> [u EXCEPT !.contacts = ValidContacts(u.contacts)],
      emotionScore |-> rec.emotionScore,
      message |-> rec.message,
      relationships |-> rec.relationships ]

CallMIME_AlongsidePlain(u, rec) ==
    LET severity == Severity(rec.emotionScore)
    IN  [rec EXCEPT !.pc = "fetch",
                    !.fetchBody = <<FetchBody(u, rec)>>,
                    !.fetchCalls = @ + 1,
                    !.severity = severity,
                    !.emailOptions = <<[to |-> <<>>, subject |-> <<severity>>, body |-> rec.message]>>,
                    !.sendEmailCalls = @ + 1]

\* sendMIMENotification up to `await fetch(...)`
CallMIME(u, rec) ==
    [rec EXCEPT !.pc = "fetch", !.fetchBody = <<FetchBody(u, rec)>>, !.fetchCalls = @ + 1]

\* contactsToAlert.map(contact => contact.email).filter(Boolean)
Recipients(contactsToAlert) ==
    LET kept == SelectSeq(contactsToAlert, Truthy)
    IN  [i \in DOMAIN kept |-> kept[i].email]

\* the template literal of emailOptions.body; the message is interpolated as it is
Body(name, severity, emotionScore, message) ==
    << "<h2>Emergency Alert: High Emotional Distress Detected</h2>",
       "<p><strong>", name,
       "</strong> is experiencing significant emotional distress and may need immediate support.</p>",
       "<h3>Alert Details:</h3><ul>",
       "<li><strong>Severity Level:</strong> ", severity, "</li>",
       "<li><strong>Distress Score:</strong> ", ToString(emotionScore), "/100</li>",
       "<li><strong>Timestamp:</strong> ", "new Date().toLocaleString()", "</li>",
       "<li><strong>Message Content:</strong> ", "\"" >>
    \o message \o
    << "\"", "</li></ul>",
       "<h3>Recommended Actions:</h3>",
       "<h3>Crisis Resources:</h3>",
       "<hr><p><small>This is an automated message from the BrightSide Emotional Support Platform.</small></p>" >>

EmailOptions(u, rec, severity) ==
    [ to |-> Recipients(rec.contactsToAlert),
      subject |-> <<severity, " ALERT: Emotional Support Needed for ", u.name>>,
      body |-> Body(u.name, severity, rec.emotionScore, rec.message) ]

\* sendEmergencyAlert from "Format the email" to the await inside sendEmail
SendPlain(u, rec) ==
    LET severity == Severity(rec.emotionScore)
    IN  [rec EXCEPT !.pc = "mail",
                    !.severity = severity,
                    !.emailOptions = <<EmailOptions(u, rec, severity)>>,
                    !.sendEmailCalls = @ + 1]

Enter_NoEmptyCheck(u, rec) ==
    LET rec1 == [rec EXCEPT !.contactsToAlert = ContactsToAlert(u.contacts, rec.relationships)]
    IN  IF rec.useMIME THEN CallMIME(u, rec1) ELSE SendPlain(u, rec1)

Enter_RaiseOnEmpty(u, rec) ==
    LET found == ContactsToAlert(u.contacts, rec.relationships)
        rec1 == [rec EXCEPT !.contactsToAlert = found]
    IN  IF Len(found) = 0 THEN Raise(rec1)
        ELSE IF rec.useMIME THEN CallMIME(u, rec1)
        ELSE SendPlain(u, rec1)

Enter_IgnoreUseMIME(u, rec) ==
    LET found == ContactsToAlert(u.contacts, rec.relationships)
        rec1 == [rec EXCEPT !.contactsToAlert = found]
    IN  IF Len(found) = 0 THEN Return(rec1, FALSE) ELSE CallMIME(u, rec1)

\* sendEmergencyAlert from its entry to its first await or return
Enter(u, rec) ==
    LET found == ContactsToAlert(u.contacts, rec.relationships)
        rec1 == [rec EXCEPT !.contactsToAlert = found]
    IN  IF Len(found) = 0 THEN Return(rec1, FALSE)
        ELSE IF rec.useMIME THEN CallMIME(u, rec1)
        ELSE SendPlain(u, rec1)

CallerUser_FilteredInPlace(u, rec) ==
    IF rec.fetchBody # <<>> THEN rec.fetchBody[1].user ELSE u

\* the caller's user object once the call has run to its first await or return:
\* filter() builds new arrays and the object spread a new object, and nothing is
\* assigned to user, to user.contacts or to a contact
CallerUser(u, rec) == u

(***************************************************************************)
(* sendMIMENotification after fetch, and what sendEmergencyAlert does with *)
(* its end.                                                                *)
(***************************************************************************)
MIMECatch_Rethrow == Throws

\* catch (error) { ...; return false; } of sendMIMENotification
MIMECatch == Returns(FALSE)

\* after response.json() parsed: false for a non-OK response, true otherwise
MIMEAfterJson(ok) == Returns(ok)

AwaitMIME_FallThrough(u, rec, end) == SendPlain(u, rec)

\* try { return await sendMIMENotification(...) } catch { fall back }
AwaitMIME(u, rec, end) ==
    IF end.kind = "return" THEN Return(rec, end.value) ELSE SendPlain(u, rec)

(***************************************************************************)
(* sendEmail after its timer, and `return sendEmail(emailOptions)`.        *)
(***************************************************************************)
SendEmailCatch_Rethrow == Throws

\* catch (error) { ...; return false; } of sendEmail
SendEmailCatch == Returns(FALSE)

\* return sendEmail(emailOptions): the call ends as sendEmail ends
ReturnSendEmail(rec, end) ==
    IF end.kind = "return" THEN Return(rec, end.value) ELSE Raise(rec)

(***************************************************************************)
(* Actions.                                                                *)
(***************************************************************************)
\* a caller invokes sendEmergencyAlert(user, emotionScore, message[, relationships[, useMIME]])
Start(c) ==
    /\ call[c].pc = "idle"
    /\ alertsSent < MaxAlerts
    /\ \E rels \in RelationshipChoices \cup {DefaultRelationships},
          mime \in BOOLEAN, score \in AlertScores, msg \in AlertMessages :
          LET rec == Enter(user, [IdleCall EXCEPT !.relationships = rels,
                                                  !.useMIME = mime,
                                                  !.emotionScore = score,
                                                  !.message = msg])
          IN  /\ call' = [call EXCEPT ![c] = rec]
              /\ user' = CallerUser(user, rec)
              /\ alertsSent' = IF rec.fetchCalls + rec.sendEmailCalls > 0
                                THEN alertsSent + 1 ELSE alertsSent
    /\ UNCHANGED probe

\* the fetch promise settles: rejected, or a response with ok true or false
FetchSettle(c) ==
    /\ call[c].pc = "fetch"
    /\ \E o \in {"rejected", "ok", "notOk"} :
          LET rec == [call[c] EXCEPT !.fetchOutcome = o]
          IN  call' = [call EXCEPT ![c] =
                  IF o = "rejected"
                  THEN AwaitMIME(user, [rec EXCEPT !.mimeEnd = <<MIMECatch>>], MIMECatch)
                  ELSE [rec EXCEPT !.pc = "json"]]
    /\ UNCHANGED <<user, alertsSent, probe>>

\* response.json() settles: the body parsed, or parsing raised
JsonSettle(c) ==
    /\ call[c].pc = "json"
    /\ \E o \in {"parsed", "error"} :
          LET end == IF o = "error" THEN MIMECatch
                     ELSE MIMEAfterJson(call[c].fetchOutcome = "ok")
              rec == [call[c] EXCEPT !.jsonOutcome = o, !.mimeEnd = <<end>>]
          IN  call' = [call EXCEPT ![c] = AwaitMIME(user, rec, end)]
    /\ UNCHANGED <<user, alertsSent, probe>>

\* the promise awaited inside sendEmail settles.  The source's stand-in for the
\* mail API only resolves; the rejection that its catch handles is kept as a
\* possible outcome of the API call it stands for.
TimerSettle(c) ==
    /\ call[c].pc = "mail"
    /\ \E o \in {"resolved", "rejected"} :
          LET end == IF o = "resolved" THEN Returns(TRUE) ELSE SendEmailCatch
              rec == [call[c] EXCEPT !.timerOutcome = o, !.emailEnd = <<end>>]
          IN  call' = [call EXCEPT ![c] = ReturnSendEmail(rec, end)]
    /\ UNCHANGED <<user, alertsSent, probe>>

\* the caller has taken the outcome; the slot is free for another call
Finish(c) ==
    /\ call[c].pc = "done"
    /\ call' = [call EXCEPT ![c] = IdleCall]
    /\ UNCHANGED <<user, alertsSent, probe>>

Init ==
    /\ user \in {UserOf(cs) : cs \in SeqsUpTo(AlertContactPool, MaxContacts)}
    /\ call = [c \in Procs |-> IdleCall]
    /\ alertsSent = 0
    /\ probe = NoProbe

Next ==
    \E c \in Procs :
        \/ Start(c)
        \/ FetchSettle(c)
        \/ JsonSettle(c)
        \/ TimerSettle(c)
        \/ Finish(c)

Spec == Init /\ [][Next]_vars


(***************************************************************************)
(* The same calls against a notification endpoint that may leave a request *)
(* unanswered.  fetch is given no signal and no timeout, so its promise    *)
(* then stays pending and the call stays suspended at `await fetch`.       *)
(***************************************************************************)
\* the endpoint will never answer the request of call c
FetchUnanswered(c) ==
    /\ call[c].pc = "fetch"
    /\ call' = [call EXCEPT ![c] = [@ EXCEPT !.pc = "fetchPending",
                                             !.fetchOutcome = "unanswered"]]
    /\ UNCHANGED <<user, alertsSent, probe>>

NextUnanswered ==
    \/ Next
    \/ \E c \in Procs : FetchUnanswered(c)

SpecUnanswered == Init /\ [][NextUnanswered]_vars

(***************************************************************************)
(* The contact filter and the severity label exercised on their own, over  *)
(* wider inputs than the alerts above carry.                               *)
(***************************************************************************)
\* contactsToAlert of sendEmergencyAlert for the drawn user and relationships
ApplyFilter ==
    /\ probe.op = "filter"
    /\ probe.applied = 0
    /\ probe' = [probe EXCEPT !.applied = 1,
                              !.contactsToAlert =
                                  ContactsToAlert(user.contacts, probe.relationships)]
    /\ UNCHANGED <<user, call, alertsSent>>

InitFilter ==
    /\ user \in {UserOf(cs) : cs \in SeqsUpTo(ContactPool, MaxContacts)}
    /\ call = [c \in Procs |-> IdleCall]
    /\ alertsSent = 0
    /\ probe \in {[NoProbe EXCEPT !.op = "filter", !.relationships = rels] :
                     rels \in SeqsUpTo(Relationships, MaxRoles)}

NextFilter == ApplyFilter

SpecFilter == InitFilter /\ [][NextFilter]_vars

\* severity of sendEmergencyAlert for one more score; the classification before
\* it is kept for comparison
Classify ==
    /\ probe.op = "classify"
    /\ \E score \in ScoreRange :
          probe' = [probe EXCEPT !.applied = IF @ < 2 THEN @ + 1 ELSE @,
                                 !.prevScore = probe.emotionScore,
                                 !.prevSeverity = probe.severity,
                                 !.emotionScore = score,
                                 !.severity = Severity(score)]
    /\ UNCHANGED <<user, call, alertsSent>>

InitClassify ==
    /\ user = UserOf(<<>>)
    /\ call = [c \in Procs |-> IdleCall]
    /\ alertsSent = 0
    /\ probe = [NoProbe EXCEPT !.op = "classify"]

NextClassify == Classify

SpecClassify == InitClassify /\ [][NextClassify]_vars

\* the branch of sendEmergencyAlert taken when contactsToAlert is empty: where
\* `window` is defined, the requested relationships without a contact are computed
ApplyMissing ==
    /\ probe.op = "missing"
    /\ probe.applied = 0
    /\ Len(ContactsToAlert(user.contacts, probe.relationships)) = 0
    /\ probe' = [probe EXCEPT !.applied = 1,
                              !.missingContacts =
                                  IF probe.window
                                  THEN MissingContacts(user.contacts, probe.relationships)
                                  ELSE <<>>]
    /\ UNCHANGED <<user, call, alertsSent>>

InitMissing ==
    /\ user \in {UserOf(cs) : cs \in SeqsUpTo(ContactPool, MaxContacts)}
    /\ call = [c \in Procs |-> IdleCall]
    /\ alertsSent = 0
    /\ probe \in {[NoProbe EXCEPT !.op = "missing", !.relationships = rels, !.window = w] :
                     rels \in SeqsUpTo(Relationships, MaxRoles), w \in BOOLEAN}

NextMissing == ApplyMissing

SpecMissing == InitMissing /\ [][NextMissing]_vars

\* emailOptions.body of sendEmergencyAlert for the drawn message and score
BuildBody ==
    /\ probe.op = "body"
    /\ probe.applied = 0
    /\ probe' = [probe EXCEPT !.applied = 1,
                              !.severity = Severity(probe.emotionScore),
                              !.body = Body(user.name, Severity(probe.emotionScore),
                                            probe.emotionScore, probe.message)]
    /\ UNCHANGED <<user, call, alertsSent>>

InitBody ==
    /\ user = UserOf(<<>>)
    /\ call = [c \in Procs |-> IdleCall]
    /\ alertsSent = 0
    /\ probe \in {[NoProbe EXCEPT !.op = "body", !.message = msg, !.emotionScore = score] :
                     msg \in SeqsUpTo(MessageChars, MaxMessage), score \in AlertScores}

NextBody == BuildBody

SpecBody == InitBody /\ [][NextBody]_vars

(***************************************************************************)
(* Vocabulary of the properties, stated apart from the code's filters.     *)
(***************************************************************************)
\* an address that is present and has a character that is not whitespace
NonBlankAddress(contact) ==
    contact.hasEmail /\ \E i \in DOMAIN contact.email : ~IsWhitespace(contact.email[i])

\* eligible: the relationship is requested and the address is non-blank
Eligible(contact, relationships) ==
    /\ contact.relationship \in {relationships[i] : i \in DOMAIN relationships}
    /\ NonBlankAddress(contact)

\* out is the elements of contacts at the positions in idx, in input order
ExactlyAt(out, contacts, idx) ==
    /\ Len(out) = Cardinality(idx)
    /\ \A k \in DOMAIN out :
          out[k] = contacts[CHOOSE i \in idx : Cardinality({j \in idx : j < i}) = k - 1]

HasEligible(c) ==
    \E i \in DOMAIN user.contacts : Eligible(user.contacts[i], call[c].relationships)

InFlight(c) == call[c].pc \in {"fetch", "json", "mail"}

RichSucceeded(c) == call[c].mimeEnd = <<Returns(TRUE)>>
RichFailed(c) == call[c].mimeEnd = <<Returns(FALSE)>>
PlainSucceeded(c) == call[c].emailEnd = <<Returns(TRUE)>>
PlainFailed(c) == call[c].emailEnd # <<>> /\ ~PlainSucceeded(c)

SeverityRank(severity) ==
    IF severity = "CRITICAL" THEN 3 ELSE IF severity = "HIGH" THEN 2 ELSE 1

(***************************************************************************)
(* C1: in a call with useMIME = true and an eligible contact, a rich       *)
(* channel that answered non-OK or raised a network error is followed by   *)
(* an invocation of sendEmail in the same call, and the call returns true  *)
(* when sendEmail succeeds.                                                *)
(***************************************************************************)
C1_FallbackAfterRichFailure ==
    \A c \in Procs :
        ( /\ call[c].pc = "done"
          /\ call[c].useMIME
          /\ HasEligible(c)
          /\ call[c].fetchOutcome \in {"rejected", "notOk"} )
        => /\ call[c].sendEmailCalls >= 1
           /\ PlainSucceeded(c) => call[c].result = <<TRUE>>

(***************************************************************************)
(* C2: at most one delivery.  Once the rich channel has reported success   *)
(* in a call, sendEmail is not invoked in that call, and the rich channel  *)
(* is invoked at most once.                                                *)
(***************************************************************************)
C2_AtMostOneDelivery ==
    \A c \in Procs :
        /\ call[c].fetchCalls <= 1
        /\ RichSucceeded(c) => call[c].sendEmailCalls = 0

C2_Witness ==
    \E c \in Procs :
        /\ call[c].pc = "done"
        /\ RichSucceeded(c)
        /\ call[c].result = <<TRUE>>

(***************************************************************************)
(* C3: rate limiting.  For one user within one hour at most                *)
(* MAX_ALERTS_PER_HOUR calls reach a channel; a further call is turned     *)
(* away before any network call.                                           *)
(***************************************************************************)
C3_RateLimit == alertsSent <= MAX_ALERTS_PER_HOUR

(***************************************************************************)
(* C4: under concurrent calls for one user, two calls are never both       *)
(* admitted to dispatch when that takes the count of admitted calls past   *)
(* the ceiling.                                                            *)
(***************************************************************************)
C4_NoRacingAdmission ==
    \A c1, c2 \in Procs :
        (c1 # c2 /\ InFlight(c1) /\ InFlight(c2)) => alertsSent <= MAX_ALERTS_PER_HOUR

(***************************************************************************)
(* C5: a call in which no contact is eligible returns false and invokes    *)
(* neither fetch nor sendEmail, whatever useMIME is.                       *)
(***************************************************************************)
C5_NoEligibleNoDispatch ==
    \A c \in Procs :
        (call[c].pc # "idle" /\ ~HasEligible(c))
        => /\ call[c].pc = "done"
           /\ call[c].result = <<FALSE>>
           /\ ~call[c].threw
           /\ call[c].fetchCalls = 0
           /\ call[c].sendEmailCalls = 0

C5_Witness ==
    \E c \in Procs :
        /\ call[c].pc = "done"
        /\ call[c].useMIME
        /\ ~HasEligible(c)
        /\ \E i \in DOMAIN user.contacts :
              /\ Includes(call[c].relationships, user.contacts[i].relationship)
              /\ user.contacts[i].email = <<" ">>

(***************************************************************************)
(* C6: the contact filter returns exactly the contacts whose relationship  *)
(* is requested and whose address is present and non-blank, in input       *)
(* order.                                                                  *)
(***************************************************************************)
C6_FilterExact ==
    (probe.op = "filter" /\ probe.applied = 1)
    => /\ ExactlyAt(probe.contactsToAlert, user.contacts,
                    {i \in DOMAIN user.contacts :
                        Eligible(user.contacts[i], probe.relationships)})
       /\ \A k \in DOMAIN probe.contactsToAlert :
             Eligible(probe.contactsToAlert[k], probe.relationships)

C6_Witness ==
    /\ probe.op = "filter"
    /\ probe.applied = 1
    /\ Len(user.contacts) = 2
    /\ user.contacts[1].email = <<" ">>
    /\ Includes(probe.relationships, user.contacts[1].relationship)
    /\ user.contacts[2].email = <<" ", "a">>
    /\ probe.contactsToAlert = <<user.contacts[2]>>

(***************************************************************************)
(* C7, as claimed: whenever the rich channel is attempted, every contact   *)
(* embedded in the submitted user object is eligible (requested            *)
(* relationship and non-blank address).                                    *)
(***************************************************************************)
C7_PayloadOnlyEligible ==
    \A c \in Procs :
        call[c].fetchBody # <<>>
        => \A i \in DOMAIN call[c].fetchBody[1].user.contacts :
              Eligible(call[c].fetchBody[1].user.contacts[i], call[c].relationships)

(***************************************************************************)
(* C7, amended: whenever the rich channel is attempted, the submitted user *)
(* object embeds exactly the user's contacts with a non-blank address, of  *)
(* any relationship, in input order; the requested relationships are      *)
(* submitted beside it.                                                    *)
(***************************************************************************)
C7_PayloadNonBlankContacts ==
    \A c \in Procs :
        call[c].fetchBody # <<>>
        => /\ ExactlyAt(call[c].fetchBody[1].user.contacts, user.contacts,
                        {i \in DOMAIN user.contacts : NonBlankAddress(user.contacts[i])})
           /\ call[c].fetchBody[1].relationships = call[c].relationships

C7_Witness ==
    \E c \in Procs :
        /\ call[c].fetchBody # <<>>
        /\ call[c].relationships = DefaultRelationships
        /\ \E i \in DOMAIN call[c].fetchBody[1].user.contacts :
              call[c].fetchBody[1].user.contacts[i].relationship = "friend"

(***************************************************************************)
(* C8: a finished call with an eligible contact returned true exactly when *)
(* the rich channel or the plain channel succeeded, and returned false     *)
(* only when the plain channel failed, after a failed or disabled rich     *)
(* channel.                                                                *)
(***************************************************************************)
C8_OutcomeOfChannels ==
    \A c \in Procs :
        (call[c].pc = "done" /\ HasEligible(c))
        => /\ call[c].result = <<TRUE>> <=> (RichSucceeded(c) \/ PlainSucceeded(c))
           /\ call[c].result = <<FALSE>>
                 => (PlainFailed(c) /\ (RichFailed(c) \/ ~call[c].useMIME))

(***************************************************************************)
(* C9: the severity is CRITICAL from 90, HIGH from 80 to 89, ELEVATED      *)
(* below 80, for scores outside 0..100 too, and a classification of a      *)
(* score at least as high never ranks lower.                               *)
(***************************************************************************)
C9_SeverityTotalMonotonic ==
    (probe.op = "classify" /\ probe.applied >= 1)
    => /\ probe.severity = "CRITICAL" <=> probe.emotionScore >= 90
       /\ probe.severity = "HIGH" <=> (80 <= probe.emotionScore /\ probe.emotionScore < 90)
       /\ probe.severity = "ELEVATED" <=> probe.emotionScore < 80
       /\ (probe.applied >= 2 /\ probe.prevScore <= probe.emotionScore)
             => SeverityRank(probe.prevSeverity) <= SeverityRank(probe.severity)

C9_Witness ==
    /\ probe.op = "classify"
    /\ probe.applied >= 2
    /\ probe.prevScore < 0
    /\ probe.prevSeverity = "ELEVATED"
    /\ probe.emotionScore = 90
    /\ probe.severity = "CRITICAL"

(***************************************************************************)
(* C10: no error leaves sendEmergencyAlert.  Whatever fetch,               *)
(* response.json() and the mail call do, a finished call has returned a    *)
(* boolean.                                                                *)
(***************************************************************************)
C10_NoErrorEscapes ==
    \A c \in Procs :
        call[c].pc = "done" => (~call[c].threw /\ call[c].result \in {<<TRUE>>, <<FALSE>>})

C10_Witness ==
    \E c \in Procs :
        /\ call[c].pc = "done"
        /\ call[c].fetchOutcome = "ok"
        /\ call[c].jsonOutcome = "error"
        /\ call[c].result = <<FALSE>>


(***************************************************************************)
(* C11: every started call completes even when the notification endpoint   *)
(* never answers: a call that has started and not finished always has a    *)
(* step to take (a settling promise, or the timeout of the rich channel    *)
(* that leads on to the plain channel).                                    *)
(***************************************************************************)
C11_StartedCallProceeds ==
    \A c \in Procs :
        call[c].pc \notin {"idle", "done"}
        => ENABLED (FetchSettle(c) \/ JsonSettle(c) \/ TimerSettle(c))

\* what the caller of a finished call receives
Outcome(c) == [returned |-> call[c].result, threw |-> call[c].threw]

NoContactsCall(c) == call[c].pc = "done" /\ ~HasEligible(c)

DeliveryFailedCall(c) ==
    call[c].pc = "done" /\ HasEligible(c) /\ (RichFailed(c) \/ PlainFailed(c))

Contains(s, sub) ==
    \E i \in 0..(Len(s) - Len(sub)) : SubSeq(s, i + 1, i + Len(sub)) = sub

\* the addresses of the eligible contacts of call c, in input order
EligibleAddresses(c) ==
    LET idx == {i \in DOMAIN user.contacts :
                    Eligible(user.contacts[i], call[c].relationships)}
    IN  [k \in 1..Cardinality(idx) |->
            user.contacts[CHOOSE i \in idx : Cardinality({j \in idx : j < i}) = k - 1].email]

SeverityLabel(score) ==
    CASE score >= 90 -> "CRITICAL"
      [] score >= 80 /\ score < 90 -> "HIGH"
      [] score < 80 -> "ELEVATED"

\* the message handed to sendEmail by call c is addressed to the eligible
\* contacts and carries the triggering message, the score and its label
PlainMessageMatches(c) ==
    /\ call[c].emailOptions # <<>>
    /\ call[c].emailOptions[1].to = EligibleAddresses(c)
    /\ Contains(call[c].emailOptions[1].body, call[c].message)
    /\ Contains(call[c].emailOptions[1].body, <<ToString(call[c].emotionScore)>>)
    /\ Contains(call[c].emailOptions[1].body, <<SeverityLabel(call[c].emotionScore)>>)

(***************************************************************************)
(* C13: when the rich channel has failed, sendEmail is invoked with        *)
(* exactly the eligible contacts' addresses, in order, and a body that     *)
(* contains the triggering message, the score and the severity label.      *)
(***************************************************************************)
C13_FallbackMessage ==
    \A c \in Procs :
        (call[c].pc = "done" /\ call[c].useMIME /\ HasEligible(c) /\ RichFailed(c))
        => (call[c].sendEmailCalls = 1 /\ PlainMessageMatches(c))

(***************************************************************************)
(* C14: a call with useMIME = false and an eligible contact never invokes  *)
(* fetch, invokes sendEmail exactly once, and returns what sendEmail       *)
(* returned.                                                               *)
(***************************************************************************)
C14_PlainOnly ==
    \A c \in Procs :
        (call[c].pc # "idle" /\ ~call[c].useMIME /\ HasEligible(c))
        => /\ call[c].fetchCalls = 0
           /\ call[c].sendEmailCalls = 1
           /\ call[c].pc = "done"
                 => /\ ~call[c].threw
                    /\ call[c].emailEnd # <<>>
                    /\ call[c].result = <<call[c].emailEnd[1].value>>

C14_Witness ==
    \E c \in Procs :
        /\ call[c].pc = "done"
        /\ ~call[c].useMIME
        /\ HasEligible(c)
        /\ call[c].sendEmailCalls = 1
        /\ PlainSucceeded(c)
        /\ call[c].result = <<TRUE>>

RichInFlight(c) == call[c].pc \in {"fetch", "fetchPending", "json"}

(***************************************************************************)
(* C15: within a call the rich attempt comes before any fallback attempt.  *)
(* sendEmail is not invoked while the rich attempt is in flight or before  *)
(* it has ended, and fetch is not called once sendEmail has been invoked.  *)
(***************************************************************************)
C15_RichBeforePlain ==
    /\ [](\A c \in Procs :
            /\ RichInFlight(c) => call[c].sendEmailCalls = 0
            /\ (call[c].fetchCalls > 0 /\ call[c].sendEmailCalls > 0)
                  => call[c].mimeEnd # <<>>)
    /\ [][\A c \in Procs :
            /\ call'[c].fetchCalls > call[c].fetchCalls
                  => (call[c].sendEmailCalls = 0 /\ call'[c].sendEmailCalls = 0)
            /\ call'[c].sendEmailCalls > call[c].sendEmailCalls
                  => ~RichInFlight(c)']_vars

C15_Witness ==
    \E c \in Procs :
        /\ call[c].pc = "json"
        /\ call[c].fetchOutcome = "notOk"
        /\ call[c].fetchCalls = 1
        /\ call[c].sendEmailCalls = 0

(***************************************************************************)
(* C16: when the filter result is empty, the missing relationships         *)
(* computed for the warning are exactly the requested relationships that   *)
(* have no eligible contact, a relationship whose contacts all have a      *)
(* blank address included.                                                 *)
(***************************************************************************)
C16_MissingAreRolesWithoutEligible ==
    (probe.op = "missing" /\ probe.applied = 1 /\ probe.window)
    => {probe.missingContacts[i] : i \in DOMAIN probe.missingContacts}
       = {probe.relationships[k] : k \in
             {k \in DOMAIN probe.relationships :
                 ~\E i \in DOMAIN user.contacts :
                     /\ user.contacts[i].relationship = probe.relationships[k]
                     /\ NonBlankAddress(user.contacts[i])}}

(***************************************************************************)
(* C17: the user and its contacts are read-only.  No step of a call, on    *)
(* any branch, changes the caller's user object or the content or order of *)
(* its contacts.                                                           *)
(***************************************************************************)
C17_UserUnchanged == [][user' = user]_vars

C17_Witness ==
    \E c \in Procs :
        /\ call[c].pc = "done"
        /\ call[c].fetchBody # <<>>
        /\ Len(user.contacts) = 2
        /\ Len(call[c].fetchBody[1].user.contacts) = 1

\* characters that are markup in HTML; escaped, each would stand in the body as
\* an entity ("&lt;", "&amp;", ...), not as the character itself
MarkupChars == {"<", ">", "&", "\""}

\* the template of the body around an empty message, and where the message goes
EmptyBody == Body("", "", 0, <<>>)

MessageOffset ==
    (CHOOSE i \in DOMAIN EmptyBody : EmptyBody[i] = "<li><strong>Message Content:</strong> ") + 1

\* the part of a body that the triggering message was interpolated into
MessagePart(body) ==
    SubSeq(body, MessageOffset + 1, Len(body) - (Len(EmptyBody) - MessageOffset))

(***************************************************************************)
(* C18: the triggering message is escaped in the HTML body.  No markup     *)
(* character of the message stands unescaped in the body handed to         *)
(* sendEmail.                                                              *)
(***************************************************************************)
C18_MessageEscaped ==
    (probe.op = "body" /\ probe.applied = 1)
    => \A i \in DOMAIN MessagePart(probe.body) : MessagePart(probe.body)[i] \notin MarkupChars

=============================================================================
